---- MODULE Spec2Model ----
(***************************************************************************)
(* QR attendance sessions of sheets-backend.                               *)
(*                                                                         *)
(* The state is the qr_sessions table (models.py, class QRSession) and,    *)
(* for every request worker, the position of the DatabaseManager method    *)
(* it is running (db_manager.py 1174-1357) together with the values its    *)
(* ORM session has loaded.  Every method opens its own ORM session         *)
(* (_get_db), queries the table, and commits later: between the query and  *)
(* the commit other workers may query and commit.                          *)
(***************************************************************************)
EXTENDS Integers, Sequences, FiniteSets, TLC

\* ------------------------------------------------------------------ bounds
MaxTime == 2
MaxSessions == 2
\* longest "sessions" list of an attendance cell
MaxEntries == 2
\* largest "count" of a counted-legacy cell
MaxCount == 2
\* most dates in one student's attendance column
MaxDates == 2
\* most students of a class
MaxStudents == 3

\* ------------------------------------------------------------- input sets
Procs == {"w1", "w2"}
ClassIds == {1, 2}
\* the classes sessions are started for
StartClasses == {1}
Dates == {"d1"}
Teachers == {"t1", "t2"}
Students == {"s1", "s2"}
Codes == {"AAAAAAAA", "12345678"}
UnknownUser == "u0"
Intervals == {1, 2}
\* the rotation interval of the sessions started in the concurrent runs
DbIntervals == {1}

\* classes table: db.get_class(user_id, class_id) finds the class only for
\* its owner (main.py 1954)
ClassOwner == [c \in ClassIds |-> IF c = 1 THEN "t1" ELSE "t2"]

VARIABLES sessions, now, pc, op, loc, ret, attendance_value, counts, students, thresholds, stats

vars == <<sessions, now, pc, op, loc, ret, attendance_value, counts, students, thresholds, stats>>

\* the qr_sessions table and the workers' calls
qrvars == <<sessions, now, pc, op, loc, ret>>

\* the class_students rows of one class (each row the cells of its
\* attendance column), the thresholds argument, and what the statistics
\* method that was called returned
aggvars == <<students, thresholds, stats>>

\* an attendance cell and the counts parse_attendance_value returned for
\* it, and the statistics state
statvars == <<attendance_value, counts, students, thresholds, stats>>

\* ------------------------------------------------------------ value shapes
\* A text handed to scan_qr_code as qr_code: either a bare 8-character code
\* or the JSON object text the scanner read (json = TRUE), whose decoded
\* fields are cls (with its JSON type), date and code.
BareText(c) == [json |-> FALSE, ctype |-> "none", cls |-> 0, date |-> "none", code |-> c]

JsonText(ty, c, d, code) == [json |-> TRUE, ctype |-> ty, cls |-> c, date |-> d, code |-> code]

NoText == BareText("none")

QRTexts == {BareText(c) : c \in Codes}

Payloads == {JsonText(ty, c, d, code) : ty \in {"str", "int"}, c \in ClassIds, d \in Dates, code \in Codes}

\* the requests posted to /qr/scan, <<user, class_id, qr_code>>: a student
\* with any object text for any class, a student with a bare text, and a
\* user with no student record
ApiScans == ({"s1"} \X ClassIds \X Payloads) \cup ({"s1"} \X {1} \X QRTexts) \cup ({UnknownUser} \X {1} \X {JsonText("str", 1, "d1", "AAAAAAAA")})

NoOp == [name |-> "none", via |-> "none", class_id |-> 0, date |-> "none", user |-> "none", interval |-> 0, qr |-> NoText]

NoLoc == [id |-> 0, count |-> 0, scanned |-> <<>>, code |-> "none"]

NoRow == [class_id |-> 0, teacher_id |-> "none", date |-> "none", session_number |-> 0, rotation_interval |-> 0, current_code |-> "none", code_generated_at |-> 0, scanned_students |-> <<>>, status |-> "none"]

NoRet == [kind |-> "none", http |-> 0, success |-> FALSE, message |-> "none", session |-> NoRow, scanned_count |-> 0, scanned_students |-> <<>>]

\* JSON values as Python holds them, tagged with their type.  Missing stands
\* for a key a dict does not have.
NoneV == [t |-> "none"]

StrV(s) == [t |-> "str", s |-> s]

IntV(n) == [t |-> "int", n |-> n]

ListV(q) == [t |-> "list", items |-> q]

Missing == [t |-> "missing"]

\* a dict of an attendance record: the values of its keys "sessions",
\* "status" and "count" (Missing: no such key) and whether it has any other
\* key ("updatedAt", ...)
DictV(ss, st, c, o) == [t |-> "dict", sessions |-> ss, status |-> st, count |-> c, other |-> o]

\* what parse_attendance_value hands back: the dict it returns, or the
\* exception it raises
Counts(p, a, l, n) == [kind |-> "return", exc |-> "none", present |-> p, absent |-> a, late |-> l, total |-> n]

Raised(e) == [kind |-> "raise", exc |-> e, present |-> Missing, absent |-> Missing, late |-> Missing, total |-> Missing]

NotParsed == [kind |-> "none", exc |-> "none", present |-> Missing, absent |-> Missing, late |-> Missing, total |-> Missing]

\* the thresholds argument: unset (None, or no "thresholds" key), or a dict
\* of the three percentages
NoThresholds == [given |-> FALSE, excellent |-> 0, good |-> 0, moderate |-> 0]

Thresholds(e, g, m) == [given |-> TRUE, excellent |-> e, good |-> g, moderate |-> m]

\* no statistics method has been called
NoStats == [fn |-> "none"]

\* ------------------------------------------------------------------ helpers
Range(s) == {s[i] : i \in 1..Len(s)}

\* rows matching a filter on (class_id, date, status = "active")
ActiveIds(tbl, c, d) == {i \in 1..Len(tbl) : tbl[i].class_id = c /\ tbl[i].date = d /\ tbl[i].status = "active"}

\* rows matching (class_id, date)
KeyIds(tbl, c, d) == {i \in 1..Len(tbl) : tbl[i].class_id = c /\ tbl[i].date = d}

\* Query.first() with no ORDER BY: any one of the matching rows, 0 for None
First(S) == IF S = {} THEN {0} ELSE S

\* session.current_code != qr_code: a stored code is a bare 8-character
\* text, so it never equals a JSON object text
CodeMatches(current, qr) == ~qr.json /\ qr.code = current

Others(p) == Procs \ {p}

\* a finished call's result is handed back before anything else moves (the
\* hand-back touches no shared state)
Quiet == \A q \in Procs : pc[q] # "done"

\* worker p is at position l of its call
At(p, l) == Quiet /\ pc[p] = l

Done(p, r) == /\ pc' = [pc EXCEPT ![p] = "done"]
              /\ ret' = [ret EXCEPT ![p] = r]

Init == /\ sessions = <<>>
        /\ now = 0
        /\ pc = [p \in Procs |-> "idle"]
        /\ op = [p \in Procs |-> NoOp]
        /\ loc = [p \in Procs |-> NoLoc]
        /\ ret = [p \in Procs |-> NoRet]
        /\ attendance_value = NoneV
        /\ counts = NotParsed
        /\ students = <<>>
        /\ thresholds = NoThresholds
        /\ stats = NoStats

\* datetime.utcnow() advances between any two steps
Tick == /\ Quiet
        /\ now < MaxTime
        /\ now' = now + 1
        /\ UNCHANGED <<sessions, pc, op, loc, ret>>
        /\ UNCHANGED statvars

\* the handler returns; the worker takes the next request
Return(p) == /\ pc[p] = "done"
             /\ pc' = [pc EXCEPT ![p] = "idle"]
             /\ op' = [op EXCEPT ![p] = NoOp]
             /\ loc' = [loc EXCEPT ![p] = NoLoc]
             /\ ret' = [ret EXCEPT ![p] = NoRet]
             /\ UNCHANGED <<sessions, now>>
             /\ UNCHANGED statvars

\* ------------------------------------------------- _generate_qr_code
\* random.choices over 36^8 texts: any code of the alphabet may be drawn,
\* the one drawn before included
generate_qr_code == Codes

\* ------------------------------------------------- start_qr_session
\* start_qr_session without the query for an active session
start_qr_session_check_noquery(p, c, t, d, r) ==
    /\ At(p, "idle")
    /\ op' = [op EXCEPT ![p] = [NoOp EXCEPT !.name = "start", !.via = "api", !.class_id = c, !.date = d, !.user = t, !.interval = r]]
    /\ IF ClassOwner[c] # t
       THEN /\ Done(p, [NoRet EXCEPT !.kind = "HTTPException", !.http = 404, !.message = "Class not found"])
            /\ UNCHANGED loc
       ELSE /\ pc' = [pc EXCEPT ![p] = "start_count"]
            /\ UNCHANGED <<loc, ret>>
    /\ UNCHANGED <<sessions, now>>
    /\ UNCHANGED statvars

\* main.py 1937-1966 and db_manager.py 1180-1189: the
\* handler's ownership check, then the query for an active session
start_qr_session_check(p, c, t, d, r) ==
    /\ At(p, "idle")
    /\ op' = [op EXCEPT ![p] = [NoOp EXCEPT !.name = "start", !.via = "api", !.class_id = c, !.date = d, !.user = t, !.interval = r]]
    /\ IF ClassOwner[c] # t
       THEN /\ Done(p, [NoRet EXCEPT !.kind = "HTTPException", !.http = 404, !.message = "Class not found"])
            /\ UNCHANGED loc
       ELSE IF ActiveIds(sessions, c, d) # {}
       THEN /\ Done(p, [NoRet EXCEPT !.kind = "ValueError", !.http = 400, !.message = "Active QR session already exists for this date"])
            /\ UNCHANGED loc
       ELSE /\ pc' = [pc EXCEPT ![p] = "start_count"]
            /\ UNCHANGED <<loc, ret>>
    /\ UNCHANGED <<sessions, now>>
    /\ UNCHANGED statvars

\* start_qr_session counting the active rows only
start_qr_session_count_active(p) ==
    /\ At(p, "start_count")
    /\ loc' = [loc EXCEPT ![p].count = Cardinality(ActiveIds(sessions, op[p].class_id, op[p].date))]
    /\ pc' = [pc EXCEPT ![p] = "start_commit"]
    /\ UNCHANGED <<sessions, now, op, ret>>
    /\ UNCHANGED statvars

\* db_manager.py 1191-1193: count of all rows of (class_id, date)
start_qr_session_count(p) ==
    /\ At(p, "start_count")
    /\ loc' = [loc EXCEPT ![p].count = Cardinality(KeyIds(sessions, op[p].class_id, op[p].date))]
    /\ pc' = [pc EXCEPT ![p] = "start_commit"]
    /\ UNCHANGED <<sessions, now, op, ret>>
    /\ UNCHANGED statvars

NewSession(o, count, code, t) ==
    [class_id |-> o.class_id, teacher_id |-> o.user, date |-> o.date, session_number |-> count + 1, rotation_interval |-> o.interval, current_code |-> code, code_generated_at |-> t, scanned_students |-> <<>>, status |-> "active"]

\* start_qr_session that reactivates an existing record of the date instead
\* of inserting
start_qr_session_commit_reuse(p) ==
    /\ At(p, "start_commit")
    /\ Len(sessions) < MaxSessions
    /\ \E code \in generate_qr_code :
          LET row == NewSession(op[p], loc[p].count, code, now)
              old == KeyIds(sessions, op[p].class_id, op[p].date)
          IN /\ sessions' = IF old = {} THEN Append(sessions, row) ELSE [i \in 1..Len(sessions) |-> IF i \in old THEN row ELSE sessions[i]]
             /\ Done(p, [NoRet EXCEPT !.kind = "ok", !.http = 200, !.success = TRUE, !.session = row])
    /\ UNCHANGED <<now, op, loc>>
    /\ UNCHANGED statvars

\* db_manager.py 1195-1219: insert, commit, refresh, return the record
start_qr_session_commit(p) ==
    /\ At(p, "start_commit")
    /\ Len(sessions) < MaxSessions
    /\ \E code \in generate_qr_code :
          LET row == NewSession(op[p], loc[p].count, code, now)
          IN /\ sessions' = Append(sessions, row)
             /\ Done(p, [NoRet EXCEPT !.kind = "ok", !.http = 200, !.success = TRUE, !.session = row])
    /\ UNCHANGED <<now, op, loc>>
    /\ UNCHANGED statvars

\* ------------------------------------------------- get_qr_session
\* what the method returns for a row
SessionDict(row) == [NoRet EXCEPT !.kind = "ok", !.success = TRUE, !.session = row, !.scanned_students = row.scanned_students]

\* main.py 1976-1979: the handler hides the session from a user who is not
\* its teacher, after the method has run
ApiGet(o, r) ==
    IF r.session = NoRow \/ r.session.teacher_id # o.user
    THEN [NoRet EXCEPT !.kind = "ok", !.http = 200, !.message = "active: false"]
    ELSE [r EXCEPT !.http = 200, !.message = "active: true"]

\* db_manager.py 1230-1242 and 1247-1258: query the active session, compare
\* the elapsed time with the rotation interval
get_qr_session_read(p, c, d, u) ==
    /\ At(p, "idle")
    /\ \E id \in First(ActiveIds(sessions, c, d)) :
       LET o == [NoOp EXCEPT !.name = "get", !.via = "api", !.class_id = c, !.date = d, !.user = u]
       IN /\ op' = [op EXCEPT ![p] = o]
          /\ IF id = 0
             THEN /\ Done(p, ApiGet(o, [NoRet EXCEPT !.kind = "ok", !.message = "None"]))
                  /\ UNCHANGED loc
             ELSE IF now - sessions[id].code_generated_at >= sessions[id].rotation_interval
             THEN /\ pc' = [pc EXCEPT ![p] = "get_rotate"]
                  /\ loc' = [loc EXCEPT ![p] = [NoLoc EXCEPT !.id = id, !.code = sessions[id].current_code]]
                  /\ UNCHANGED ret
             ELSE /\ Done(p, ApiGet(o, SessionDict(sessions[id])))
                  /\ UNCHANGED loc
    /\ UNCHANGED <<sessions, now>>
    /\ UNCHANGED statvars

\* db_manager.py 1243-1258: UPDATE current_code, code_generated_at of the
\* loaded row; the commit expires the object, the return reloads the row
get_qr_session_rotate(p) ==
    /\ At(p, "get_rotate")
    /\ \E code \in generate_qr_code :
          LET id == loc[p].id
              row == [sessions[id] EXCEPT !.current_code = code, !.code_generated_at = now]
          IN /\ sessions' = [sessions EXCEPT ![id] = row]
             /\ Done(p, ApiGet(op[p], SessionDict(row)))
    /\ UNCHANGED <<now, op, loc>>
    /\ UNCHANGED statvars

\* ------------------------------------------------- stop_qr_session
\* stop_qr_session without the teacher_id filter of its query
stop_qr_session_read_anyteacher(p, c, u, d) ==
    /\ At(p, "idle")
    /\ op' = [op EXCEPT ![p] = [NoOp EXCEPT !.name = "stop", !.via = "api", !.class_id = c, !.date = d, !.user = u]]
    /\ \E id \in First(ActiveIds(sessions, c, d)) :
          IF id = 0
          THEN /\ Done(p, [NoRet EXCEPT !.kind = "ok", !.http = 200, !.message = "No active session found"])
               /\ UNCHANGED loc
          ELSE /\ pc' = [pc EXCEPT ![p] = "stop_commit"]
               /\ loc' = [loc EXCEPT ![p].id = id]
               /\ UNCHANGED ret
    /\ UNCHANGED <<sessions, now>>
    /\ UNCHANGED statvars

\* db_manager.py 1266-1276: query the caller's active session
stop_qr_session_read(p, c, u, d) ==
    /\ At(p, "idle")
    /\ op' = [op EXCEPT ![p] = [NoOp EXCEPT !.name = "stop", !.via = "api", !.class_id = c, !.date = d, !.user = u]]
    /\ \E id \in First({i \in ActiveIds(sessions, c, d) : sessions[i].teacher_id = u}) :
          IF id = 0
          THEN /\ Done(p, [NoRet EXCEPT !.kind = "ok", !.http = 200, !.message = "No active session found"])
               /\ UNCHANGED loc
          ELSE /\ pc' = [pc EXCEPT ![p] = "stop_commit"]
               /\ loc' = [loc EXCEPT ![p].id = id]
               /\ UNCHANGED ret
    /\ UNCHANGED <<sessions, now>>
    /\ UNCHANGED statvars

\* stop_qr_session without the assignment of status
stop_qr_session_commit_nostatus(p) ==
    /\ At(p, "stop_commit")
    /\ LET id == loc[p].id
           row == sessions[id]
       IN /\ sessions' = [sessions EXCEPT ![id] = row]
          /\ Done(p, [NoRet EXCEPT !.kind = "ok", !.http = 200, !.success = TRUE, !.scanned_count = Len(row.scanned_students), !.scanned_students = row.scanned_students])
    /\ UNCHANGED <<now, op, loc>>
    /\ UNCHANGED statvars

\* db_manager.py 1278-1285: UPDATE status of the loaded row; the summary is
\* read from the row reloaded after the commit
stop_qr_session_commit(p) ==
    /\ At(p, "stop_commit")
    /\ LET id == loc[p].id
           row == [sessions[id] EXCEPT !.status = "completed"]
       IN /\ sessions' = [sessions EXCEPT ![id] = row]
          /\ Done(p, [NoRet EXCEPT !.kind = "ok", !.http = 200, !.success = TRUE, !.scanned_count = Len(row.scanned_students), !.scanned_students = row.scanned_students])
    /\ UNCHANGED <<now, op, loc>>
    /\ UNCHANGED statvars

\* ------------------------------------------------- scan_qr_code
ScanFail(m) == [NoRet EXCEPT !.kind = "ok", !.message = m]

\* db_manager.py 1334-1344: what scan_qr_code decides for the row it has
\* queried (id = 0: no row): the message of its early return, or "append"
ScanVerdict(tbl, id, s, qr) ==
    IF id = 0 THEN "No active QR session"
    ELSE IF ~CodeMatches(tbl[id].current_code, qr) THEN "Invalid or expired QR code"
    ELSE IF s \in Range(tbl[id].scanned_students) THEN "Already scanned"
    ELSE "append"

\* scan_qr_code without the status filter of its query
ScanQuery_anystatus(p, o) ==
    /\ op' = [op EXCEPT ![p] = o]
    /\ \E id \in First(KeyIds(sessions, o.class_id, o.date)) :
          LET v == ScanVerdict(sessions, id, o.user, o.qr)
          IN IF v # "append"
             THEN /\ Done(p, ScanFail(v))
                  /\ UNCHANGED loc
             ELSE /\ pc' = [pc EXCEPT ![p] = "scan_commit"]
                  /\ loc' = [loc EXCEPT ![p] = [NoLoc EXCEPT !.id = id, !.scanned = sessions[id].scanned_students]]
                  /\ UNCHANGED ret
    /\ UNCHANGED <<sessions, now>>

\* db_manager.py 1326-1344: query the active session, compare the code,
\* look the student up in the loaded list
ScanQuery(p, o) ==
    /\ op' = [op EXCEPT ![p] = o]
    /\ \E id \in First(ActiveIds(sessions, o.class_id, o.date)) :
          LET v == ScanVerdict(sessions, id, o.user, o.qr)
          IN IF v # "append"
             THEN /\ Done(p, ScanFail(v))
                  /\ UNCHANGED loc
             ELSE /\ pc' = [pc EXCEPT ![p] = "scan_commit"]
                  /\ loc' = [loc EXCEPT ![p] = [NoLoc EXCEPT !.id = id, !.scanned = sessions[id].scanned_students]]
                  /\ UNCHANGED ret
    /\ UNCHANGED <<sessions, now>>

\* scan_qr_code that records the student before it compares the code
scan_qr_code_read_unverified(p, s, c, qr, d) ==
    /\ At(p, "idle")
    /\ op' = [op EXCEPT ![p] = [NoOp EXCEPT !.name = "scan", !.via = "db", !.class_id = c, !.date = d, !.user = s, !.qr = qr]]
    /\ \E id \in First(ActiveIds(sessions, c, d)) :
          LET v == ScanVerdict(sessions, id, s, qr)
          IN IF v = "Invalid or expired QR code"
             THEN /\ sessions' = [sessions EXCEPT ![id].scanned_students = IF @ = <<>> THEN <<s>> ELSE @]
                  /\ Done(p, ScanFail(v))
                  /\ UNCHANGED loc
             ELSE IF v # "append"
             THEN /\ Done(p, ScanFail(v))
                  /\ UNCHANGED <<sessions, loc>>
             ELSE /\ pc' = [pc EXCEPT ![p] = "scan_commit"]
                  /\ loc' = [loc EXCEPT ![p] = [NoLoc EXCEPT !.id = id, !.scanned = sessions[id].scanned_students]]
                  /\ UNCHANGED <<sessions, ret>>
    /\ UNCHANGED now
    /\ UNCHANGED statvars

\* DatabaseManager.scan_qr_code called with its four arguments
scan_qr_code_read(p, s, c, qr, d) ==
    /\ At(p, "idle")
    /\ ScanQuery(p, [NoOp EXCEPT !.name = "scan", !.via = "db", !.class_id = c, !.date = d, !.user = s, !.qr = qr])
    /\ UNCHANGED statvars

\* json.loads of the scanned text: an object text decodes to a dict, a text
\* of digits to a number, any other bare text raises JSONDecodeError
JsonKind(qr) == IF qr.json THEN "dict" ELSE IF qr.code = "12345678" THEN "number" ELSE "error"

\* qr_class_id != class_id (main.py 2019): class_id is the str query
\* parameter, qr_class_id the decoded JSON value; a str and an int are
\* never equal
WrongClass(qr, c) == ~(qr.ctype = "str" /\ qr.cls = c)

\* main.py 1998-2037: the POST /qr/scan handler up to its call of
\* db.scan_qr_code, which gets the scanned text itself (qr_code), followed by
\* the query of db_manager.py 1326-1344
api_scan_qr_code(p, u, c, qr) ==
    /\ At(p, "idle")
    /\ LET o == [NoOp EXCEPT !.name = "scan", !.via = "api", !.class_id = c, !.date = qr.date, !.user = u, !.qr = qr]
           fail(code, m) == /\ op' = [op EXCEPT ![p] = o]
                            /\ Done(p, [NoRet EXCEPT !.kind = "HTTPException", !.http = code, !.message = m])
                            /\ UNCHANGED <<sessions, now, loc>>
       IN IF u \notin Students THEN fail(500, "Failed to scan QR code")
          ELSE IF JsonKind(qr) = "error" THEN fail(400, "Invalid QR code format")
          ELSE IF JsonKind(qr) = "number" THEN fail(500, "Failed to scan QR code")
          ELSE IF WrongClass(qr, c) THEN fail(400, "QR code is for a different class")
          ELSE ScanQuery(p, o)
    /\ UNCHANGED statvars

\* the UPDATE that the commit of db_manager.py 1346-1348 emits.  `scanned`
\* is `session.scanned_students or []`: the loaded list object itself when it
\* is non-empty, a new list when it is empty.  Appending to the loaded list
\* and assigning the same object back leaves the attribute equal to its
\* loaded value, so the unit of work emits no UPDATE (the column is a plain
\* JSON column and flag_modified is not called, cf. db_manager.py 209-211);
\* only the assignment of the new list is written.
ScanWrite(tbl, id, loaded, s) ==
    IF loaded = <<>>
    THEN [tbl EXCEPT ![id].scanned_students = <<s>>]
    ELSE tbl

\* db_manager.py 1346-1350
scan_qr_code_commit(p) ==
    /\ At(p, "scan_commit")
    /\ sessions' = ScanWrite(sessions, loc[p].id, loc[p].scanned, op[p].user)
    /\ Done(p, [NoRet EXCEPT !.kind = "ok", !.http = IF op[p].via = "api" THEN 200 ELSE 0, !.success = TRUE, !.message = "Attendance marked successfully"])
    /\ UNCHANGED <<now, op, loc>>
    /\ UNCHANGED statvars

\* ------------------------------------------------- mark_qr_attendance
\* db_manager.py 1297-1309 and 1314: query the active session (ValueError
\* when there is none), look the student up in the loaded list; a student
\* already in it gets True without a commit
mark_qr_attendance_read(p, c, d, s) ==
    /\ At(p, "idle")
    /\ op' = [op EXCEPT ![p] = [NoOp EXCEPT !.name = "mark", !.via = "db", !.class_id = c, !.date = d, !.user = s]]
    /\ \E id \in First(ActiveIds(sessions, c, d)) :
          IF id = 0
          THEN /\ Done(p, [NoRet EXCEPT !.kind = "ValueError", !.message = "No active QR session found"])
               /\ UNCHANGED loc
          ELSE IF s \in Range(sessions[id].scanned_students)
          THEN /\ Done(p, [NoRet EXCEPT !.kind = "ok", !.success = TRUE])
               /\ UNCHANGED loc
          ELSE /\ pc' = [pc EXCEPT ![p] = "mark_commit"]
               /\ loc' = [loc EXCEPT ![p] = [NoLoc EXCEPT !.id = id, !.scanned = sessions[id].scanned_students]]
               /\ UNCHANGED ret
    /\ UNCHANGED <<sessions, now>>
    /\ UNCHANGED statvars

\* mark_qr_attendance that also stamps the record with the time of the mark
mark_qr_attendance_commit_touch(p) ==
    /\ At(p, "mark_commit")
    /\ sessions' = [ScanWrite(sessions, loc[p].id, loc[p].scanned, op[p].user) EXCEPT ![loc[p].id].code_generated_at = now]
    /\ Done(p, [NoRet EXCEPT !.kind = "ok", !.success = TRUE])
    /\ UNCHANGED <<now, op, loc>>
    /\ UNCHANGED statvars

\* db_manager.py 1310-1314: append to the loaded list, assign it back,
\* commit (the write is the one of scan_qr_code), return True
mark_qr_attendance_commit(p) ==
    /\ At(p, "mark_commit")
    /\ sessions' = ScanWrite(sessions, loc[p].id, loc[p].scanned, op[p].user)
    /\ Done(p, [NoRet EXCEPT !.kind = "ok", !.success = TRUE])
    /\ UNCHANGED <<now, op, loc>>
    /\ UNCHANGED statvars

\* ------------------------------------------------- parse_attendance_value
\* Python truth value of a JSON value (db_manager.py 37, 45)
Truthy(v) ==
    CASE v.t = "none" -> FALSE
      [] v.t = "str" -> v.s # ""
      [] v.t = "int" -> v.n # 0
      [] v.t = "list" -> v.items # <<>>
      [] v.t = "dict" -> v.sessions # Missing \/ v.status # Missing \/ v.count # Missing \/ v.other

\* dict.get(key): None for a key the dict does not have
Get(v) == IF v = Missing THEN NoneV ELSE v

\* db_manager.py 42-52, the loop body for the entries from the i-th on:
\* session.get raises AttributeError on an entry that is not a dict; an
\* entry with a true status adds one to total and to the bucket of its code
RECURSIVE SessionsLoop(_, _, _)
SessionsLoop(items, i, acc) ==
    IF i > Len(items) THEN Counts(IntV(acc[1]), IntV(acc[2]), IntV(acc[3]), IntV(acc[4]))
    ELSE IF items[i].t # "dict" THEN Raised("AttributeError")
    ELSE LET status == Get(items[i].status)
         IN IF ~Truthy(status) THEN SessionsLoop(items, i + 1, acc)
            ELSE SessionsLoop(items, i + 1,
                   <<acc[1] + (IF status = StrV("P") THEN 1 ELSE 0),
                     acc[2] + (IF status = StrV("A") THEN 1 ELSE 0),
                     acc[3] + (IF status = StrV("L") THEN 1 ELSE 0),
                     acc[4] + 1>>)

\* the sessions branch looking at the first entry of a list only
SessionsBranch_first(sessions_value) ==
    CASE sessions_value.t = "list" -> SessionsLoop(IF sessions_value.items = <<>> THEN <<>> ELSE <<sessions_value.items[1]>>, 1, <<0, 0, 0, 0>>)
      [] sessions_value.t \in {"none", "int"} -> Raised("TypeError")
      [] sessions_value.t \in {"str", "dict"} ->
            IF Truthy(sessions_value) THEN Raised("AttributeError") ELSE Counts(IntV(0), IntV(0), IntV(0), IntV(0))

\* db_manager.py 41-52: `for session in sessions` over the value of the
\* "sessions" key: a list yields its entries; None and a number are not
\* iterable (TypeError); a string yields its characters and a dict its
\* keys, which are strings and have no .get (AttributeError), unless empty
SessionsBranch(sessions_value) ==
    CASE sessions_value.t = "list" -> SessionsLoop(sessions_value.items, 1, <<0, 0, 0, 0>>)
      [] sessions_value.t \in {"none", "int"} -> Raised("TypeError")
      [] sessions_value.t \in {"str", "dict"} ->
            IF Truthy(sessions_value) THEN Raised("AttributeError") ELSE Counts(IntV(0), IntV(0), IntV(0), IntV(0))

\* the bare-code branch yielding no count
StrBranch_zero(code) == Counts(IntV(0), IntV(0), IntV(0), IntV(0))

\* db_manager.py 67-74: a string counts one toward total, and toward the
\* bucket of its code when it is P, A or L
StrBranch(code) ==
    Counts(IntV(IF code = "P" THEN 1 ELSE 0), IntV(IF code = "A" THEN 1 ELSE 0), IntV(IF code = "L" THEN 1 ELSE 0), IntV(1))

\* db_manager.py 55-64: count is the value of the "count" key, 1 without
\* the key; total is count, and so is the bucket of the status
LegacyBranch(cell) ==
    LET status == Get(cell.status)
        count == IF cell.count = Missing THEN IntV(1) ELSE cell.count
    IN Counts(IF status = StrV("P") THEN count ELSE IntV(0),
              IF status = StrV("A") THEN count ELSE IntV(0),
              IF status = StrV("L") THEN count ELSE IntV(0),
              count)

\* parse_attendance_value testing the "status" key before the "sessions" key
parse_attendance_value_legacyfirst(v) ==
    IF ~Truthy(v) THEN Counts(IntV(0), IntV(0), IntV(0), IntV(0))
    ELSE IF v.t = "dict" /\ v.status # Missing THEN LegacyBranch(v)
    ELSE IF v.t = "dict" /\ v.sessions # Missing THEN SessionsBranch(v.sessions)
    ELSE IF v.t = "str" THEN StrBranch(v.s)
    ELSE Counts(IntV(0), IntV(0), IntV(0), IntV(0))

\* db_manager.py 25-81
parse_attendance_value(v) ==
    IF ~Truthy(v) THEN Counts(IntV(0), IntV(0), IntV(0), IntV(0))
    ELSE IF v.t = "dict" /\ v.sessions # Missing THEN SessionsBranch(v.sessions)
    ELSE IF v.t = "dict" /\ v.status # Missing THEN LegacyBranch(v)
    ELSE IF v.t = "str" THEN StrBranch(v.s)
    ELSE Counts(IntV(0), IntV(0), IntV(0), IntV(0))

\* ------------------------------------------------- attendance cells
StatusCodes == {"P", "A", "L", "X", ""}

StatusValues == {StrV(c) : c \in StatusCodes} \cup {NoneV}

\* entries of a "sessions" list: dicts with or without a status, and values
\* that are not dicts
Entries == {DictV(Missing, st, Missing, o) : st \in StatusValues \cup {Missing}, o \in {TRUE}} \cup {StrV("P"), NoneV, IntV(1)}

RECURSIVE EntryLists(_)
EntryLists(n) == IF n = 0 THEN {<<>>} ELSE EntryLists(n - 1) \cup {Append(q, e) : q \in EntryLists(n - 1), e \in Entries}

SessionsValues == {ListV(q) : q \in EntryLists(MaxEntries)} \cup {NoneV, IntV(3), StrV(""), StrV("P")}

CountValues == {IntV(n) : n \in -1..MaxCount} \cup {NoneV, StrV("2")}

\* the cells of the attendance JSON: multi-session cells (with or without a
\* status and a count beside the sessions), counted-legacy cells, dicts with
\* neither key, bare strings and other JSON values
Cells ==
    {DictV(ss, st, c, FALSE) : ss \in SessionsValues, st \in {Missing, StrV("P")}, c \in {Missing, IntV(2)}}
    \cup {DictV(Missing, st, c, o) : st \in StatusValues, c \in CountValues \cup {Missing}, o \in BOOLEAN}
    \cup {DictV(Missing, Missing, c, o) : c \in {Missing, IntV(2)}, o \in BOOLEAN}
    \cup {StrV(c) : c \in StatusCodes}
    \cup {NoneV, IntV(0), IntV(1), ListV(<<>>), ListV(<<StrV("P")>>)}

ParseInit ==
    /\ sessions = <<>>
    /\ now = 0
    /\ pc = [p \in Procs |-> "idle"]
    /\ op = [p \in Procs |-> NoOp]
    /\ loc = [p \in Procs |-> NoLoc]
    /\ ret = [p \in Procs |-> NoRet]
    /\ attendance_value \in Cells
    /\ counts = NotParsed
    /\ students = <<>>
    /\ thresholds = NoThresholds
    /\ stats = NoStats

\* a call of parse_attendance_value on the cell
Parse ==
    /\ counts = NotParsed
    /\ counts' = parse_attendance_value(attendance_value)
    /\ UNCHANGED attendance_value
    /\ UNCHANGED aggvars
    /\ UNCHANGED qrvars

ParseNext == Parse

ParseSpec == ParseInit /\ [][ParseNext]_vars

\* ------------------------------------------------- statistics
\* `if not thresholds` (db_manager.py 1104-1109, 1583-1588) and the default
\* of class_data.get("thresholds", ...) (589-593)
DefaultThresholds == Thresholds(95, 90, 85)

EffectiveThresholds(th) == IF th.given THEN th ELSE DefaultThresholds

\* `x += counts[...]` needs numbers: a record whose four values are ints
Summable(c) ==
    /\ c.kind = "return"
    /\ c.present.t = "int"
    /\ c.absent.t = "int"
    /\ c.late.t = "int"
    /\ c.total.t = "int"

NoSum == [ok |-> TRUE, present |-> 0, absent |-> 0, late |-> 0, total |-> 0]

\* db_manager.py 1092-1097 (and 624-629, 1609-1615): the sums of the parsed
\* counts of the cells from the i-th on; ok is FALSE when
\* parse_attendance_value raises or a sum raises TypeError
RECURSIVE SumCells(_, _, _)
SumCells(cells, i, acc) ==
    IF i > Len(cells) THEN acc
    ELSE LET c == parse_attendance_value(cells[i])
         IN IF ~Summable(c) THEN [acc EXCEPT !.ok = FALSE]
            ELSE SumCells(cells, i + 1,
                   [ok |-> TRUE,
                    present |-> acc.present + c.present.n,
                    absent |-> acc.absent + c.absent.n,
                    late |-> acc.late + c.late.n,
                    total |-> acc.total + c.total.n])

\* round(k / t * 100, 2) for t > 0, in hundredths of a percent: the nearest
\* hundredth, the even one of two equally near
Round2(k, t) ==
    LET q == (k * 10000) \div t
        r == (k * 10000) % t
    IN IF 2 * r > t \/ (2 * r = t /\ q % 2 = 1) THEN q + 1 ELSE q

\* the comparison with > in place of >=
PercentageAbove(k, t, x) == IF t > 0 THEN k * 100 > x * t ELSE 0 > x

\* percentage >= x, where percentage is k / t * 100 when t > 0 and 0.0
\* otherwise
PercentageAtLeast(k, t, x) == IF t > 0 THEN k * 100 >= x * t ELSE 0 >= x

StudentStats(i, n, p, a, l, pct, st) ==
    [fn |-> "get_student_stats", student |-> i, total_classes |-> n, present |-> p, absent |-> a, late |-> l, percentage |-> pct, status |-> st]

\* db_manager.py 1054-1139: rows are the class_students rows of the class,
\* i the row of the student (no row when i is not an index); th the
\* thresholds argument
get_student_stats(rows, i, th) ==
    IF i \notin 1..Len(rows) THEN StudentStats(i, 0, 0, 0, 0, 0, "good")
    ELSE LET sum == SumCells(rows[i], 1, NoSum)
             t == EffectiveThresholds(th)
             k == sum.present + sum.late
         IN IF ~sum.ok THEN StudentStats(i, 0, 0, 0, 0, 0, "good")
            ELSE StudentStats(i, sum.total, sum.present, sum.absent, sum.late,
                   IF sum.total > 0 THEN Round2(k, sum.total) ELSE 0,
                   IF PercentageAtLeast(k, sum.total, t.excellent) THEN "excellent"
                   ELSE IF PercentageAtLeast(k, sum.total, t.good) THEN "good"
                   ELSE IF PercentageAtLeast(k, sum.total, t.moderate) THEN "moderate"
                   ELSE "at-risk")

\* what a class aggregation hands back: kind "raise" for an exception,
\* has_totals FALSE for a dict without the present/absent/late totals;
\* found records whether the class row of the caller existed
ClassStats(fn, kind, has_totals, n, avg, e, r, sum) ==
    [fn |-> fn, found |-> TRUE, kind |-> kind, has_totals |-> has_totals, total_students |-> n, avg_attendance |-> avg, excellent |-> e, at_risk |-> r,
     total_present |-> sum.present, total_absent |-> sum.absent, total_late |-> sum.late, total_sessions |-> sum.total]

\* db_manager.py 1601-1628 (and 616-642): the loop over the students from the
\* i-th on; acc holds the four totals and the two band counts
RECURSIVE ClassLoop(_, _, _, _)
ClassLoop(rows, i, t, acc) ==
    IF i > Len(rows) THEN acc
    ELSE LET sum == SumCells(rows[i], 1, NoSum)
             k == sum.present + sum.late
         IN IF ~sum.ok THEN [acc EXCEPT !.ok = FALSE]
            ELSE ClassLoop(rows, i + 1, t,
                   [ok |-> TRUE,
                    present |-> acc.present + sum.present,
                    absent |-> acc.absent + sum.absent,
                    late |-> acc.late + sum.late,
                    total |-> acc.total + sum.total,
                    excellent |-> acc.excellent + (IF sum.total > 0 /\ PercentageAtLeast(k, sum.total, t.excellent) THEN 1 ELSE 0),
                    at_risk |-> acc.at_risk + (IF sum.total > 0 /\ ~PercentageAtLeast(k, sum.total, t.excellent) /\ ~PercentageAtLeast(k, sum.total, t.moderate) THEN 1 ELSE 0)])

NoClassSum == [ok |-> TRUE, present |-> 0, absent |-> 0, late |-> 0, total |-> 0, excellent |-> 0, at_risk |-> 0]

\* db_manager.py 1630-1644 (and 644-658): the average and the returned dict
ClassResult(fn, rows, acc) ==
    ClassStats(fn, "return", TRUE, Len(rows),
               IF acc.total > 0 THEN Round2(acc.present + acc.late, acc.total) ELSE 0,
               acc.excellent, acc.at_risk, acc)

\* db_manager.py 1541-1657: found is whether the class row of the teacher
\* exists; the early returns and the except branch return a dict of five
\* keys, without the present/absent/late totals
calculate_class_statistics(found, rows, th) ==
    LET fn == "calculate_class_statistics"
        acc == ClassLoop(rows, 1, EffectiveThresholds(th), NoClassSum)
    IN IF ~found THEN [ClassStats(fn, "return", FALSE, 0, 0, 0, 0, NoSum) EXCEPT !.found = FALSE]
       ELSE IF rows = <<>> \/ ~acc.ok THEN ClassStats(fn, "return", FALSE, 0, 0, 0, 0, NoSum)
       ELSE ClassResult(fn, rows, acc)

\* db_manager.py 583-658: no try/except, an exception of the loop leaves
\* the method
calculate_class_statistics_from_data(rows, th) ==
    LET fn == "calculate_class_statistics_from_data"
        acc == ClassLoop(rows, 1, EffectiveThresholds(th), NoClassSum)
    IN IF rows = <<>> THEN ClassStats(fn, "return", TRUE, 0, 0, 0, 0, NoSum)
       ELSE IF ~acc.ok THEN ClassStats(fn, "raise", FALSE, 0, 0, 0, 0, NoSum)
       ELSE ClassResult(fn, rows, acc)

\* ------------------------------------------------- rosters
Counted(c, n) == DictV(Missing, StrV(c), IntV(n), FALSE)

MarkCounts == {1, 5, 9, 10}

\* the cells of the attendance columns: bare codes, counted cells, a
\* multi-session cell, an empty cell, and cells of damaged data (a negative
\* count, a count that is not a number, a null "sessions")
StatCells ==
    {StrV(c) : c \in {"P", "A", "L", "X"}}
    \cup {Counted(c, n) : c \in {"P", "A", "L"}, n \in MarkCounts}
    \cup {DictV(ListV(<<DictV(Missing, StrV("P"), Missing, TRUE), DictV(Missing, StrV("L"), Missing, TRUE)>>), Missing, Missing, FALSE)}
    \cup {NoneV, Counted("P", -1), DictV(Missing, StrV("P"), StrV("2"), FALSE), DictV(NoneV, Missing, Missing, FALSE)}

RECURSIVE Histories(_)
Histories(n) == IF n = 0 THEN {<<>>} ELSE Histories(n - 1) \cup {Append(h, c) : h \in Histories(n - 1), c \in StatCells}

\* the attendance columns the classes of several students are built from
RosterHistories ==
    {<<Counted("P", 9), Counted("A", 1)>>, <<Counted("P", 5), Counted("A", 5)>>, <<Counted("P", 10)>>,
     <<>>, <<StrV("L")>>, <<Counted("P", -1)>>, <<DictV(NoneV, Missing, Missing, FALSE)>>}

RECURSIVE RostersOf(_, _)
RostersOf(H, n) == IF n = 0 THEN {<<>>} ELSE RostersOf(H, n - 1) \cup {Append(r, h) : r \in RostersOf(H, n - 1), h \in H}

Rosters == RostersOf(RosterHistories, MaxStudents) \cup {<<h>> : h \in Histories(MaxDates)}

ThresholdSets == {NoThresholds, Thresholds(95, 90, 85), Thresholds(75, 50, 25)}

StatsInit ==
    /\ sessions = <<>>
    /\ now = 0
    /\ pc = [p \in Procs |-> "idle"]
    /\ op = [p \in Procs |-> NoOp]
    /\ loc = [p \in Procs |-> NoLoc]
    /\ ret = [p \in Procs |-> NoRet]
    /\ attendance_value = NoneV
    /\ counts = NotParsed
    /\ students \in Rosters
    /\ thresholds \in ThresholdSets
    /\ stats = NoStats

\* a call of get_student_stats for a student of the class, or for one who
\* has no row in it (i = number of rows + 1)
GetStudentStats ==
    /\ stats = NoStats
    /\ \E i \in 1..(Len(students) + 1) : stats' = get_student_stats(students, i, thresholds)
    /\ UNCHANGED <<students, thresholds, attendance_value, counts>>
    /\ UNCHANGED qrvars

\* a call of calculate_class_statistics by the class's teacher or another
CalculateClassStatistics ==
    /\ stats = NoStats
    /\ \E found \in BOOLEAN : stats' = calculate_class_statistics(found, students, thresholds)
    /\ UNCHANGED <<students, thresholds, attendance_value, counts>>
    /\ UNCHANGED qrvars

\* a call of calculate_class_statistics_from_data on the class's dict
CalculateClassStatisticsFromData ==
    /\ stats = NoStats
    /\ stats' = calculate_class_statistics_from_data(students, thresholds)
    /\ UNCHANGED <<students, thresholds, attendance_value, counts>>
    /\ UNCHANGED qrvars

StatsNext == GetStudentStats \/ CalculateClassStatistics \/ CalculateClassStatisticsFromData

StatsSpec == StatsInit /\ [][StatsNext]_vars

\* ------------------------------------------------- specifications
\* the calls of DatabaseManager's methods: start and stop by the owner of
\* the class, scan with a bare code
DbStep(p) ==
    \/ \E c \in StartClasses, d \in Dates, r \in DbIntervals : start_qr_session_check(p, c, ClassOwner[c], d, r)
    \/ start_qr_session_count(p)
    \/ start_qr_session_commit(p)
    \/ \E c \in StartClasses, d \in Dates : get_qr_session_read(p, c, d, ClassOwner[c])
    \/ get_qr_session_rotate(p)
    \/ \E c \in StartClasses, d \in Dates : stop_qr_session_read(p, c, ClassOwner[c], d)
    \/ stop_qr_session_commit(p)
    \/ \E s \in Students, c \in StartClasses, qr \in QRTexts, d \in Dates : scan_qr_code_read(p, s, c, qr, d)
    \/ scan_qr_code_commit(p)

\* the calls of DatabaseManager's methods with mark_qr_attendance among them
MarkStep(p) ==
    \/ DbStep(p)
    \/ \E c \in StartClasses, d \in Dates, s \in Students : mark_qr_attendance_read(p, c, d, s)
    \/ mark_qr_attendance_commit(p)

\* the requests of any user for any class
ApiStep(p) ==
    \/ \E c \in StartClasses, t \in Teachers, d \in Dates, r \in Intervals : start_qr_session_check(p, c, t, d, r)
    \/ start_qr_session_count(p)
    \/ start_qr_session_commit(p)
    \/ \E c \in ClassIds, d \in Dates, u \in Teachers : get_qr_session_read(p, c, d, u)
    \/ get_qr_session_rotate(p)
    \/ \E c \in ClassIds, u \in Teachers, d \in Dates : stop_qr_session_read(p, c, u, d)
    \/ stop_qr_session_commit(p)
    \/ \E s \in Students, c \in ClassIds, qr \in QRTexts, d \in Dates : scan_qr_code_read(p, s, c, qr, d)
    \/ \E i \in ApiScans : api_scan_qr_code(p, i[1], i[2], i[3])
    \/ scan_qr_code_commit(p)

\* request workers run concurrently
Next == Tick \/ \E p \in Procs : DbStep(p) \/ Return(p)

Spec == Init /\ [][Next]_vars

\* one request at a time: a single worker takes them all
SeqNext == Tick \/ ApiStep("w1") \/ Return("w1")

SeqSpec == Init /\ [][SeqNext]_vars

\* the methods of DatabaseManager called one at a time
MarkNext == Tick \/ MarkStep("w1") \/ Return("w1")

MarkSpec == Init /\ [][MarkNext]_vars

\* ------------------------------------------------------------------ claims
NumActive(tbl, c, d) == Cardinality(ActiveIds(tbl, c, d))

\* C1: calls run one after the other.  A start_qr_session of the class's
\* owner for a (class_id, date) that has an active session fails with
\* ValueError (HTTP 400), inserts nothing and leaves exactly one active
\* session; a start that inserts leaves exactly one active session; and
\* no step other than the commit of a stop ends a session's being active.
C1_SecondStartConflicts ==
    [][\A p \in Procs :
         /\ (/\ pc[p] = "idle"
             /\ op'[p].name = "start"
             /\ op'[p].user = ClassOwner[op'[p].class_id]
             /\ ActiveIds(sessions, op'[p].class_id, op'[p].date) # {})
            => (/\ pc'[p] = "done"
                /\ ret'[p].kind = "ValueError"
                /\ ret'[p].http = 400
                /\ sessions' = sessions
                /\ NumActive(sessions', op'[p].class_id, op'[p].date) = 1)
         /\ (pc[p] = "start_commit" /\ pc'[p] = "done")
            => (ret'[p].success /\ NumActive(sessions', op[p].class_id, op[p].date) = 1)
         /\ (\A q \in Procs : pc[q] # "stop_commit")
            => (\A c \in ClassIds, d \in Dates : ActiveIds(sessions, c, d) \subseteq ActiveIds(sessions', c, d))
      ]_vars

\* a second start has been refused while the first session is active
C1_Witness ==
    \E p \in Procs :
       /\ pc[p] = "done"
       /\ op[p].name = "start"
       /\ ret[p].kind = "ValueError"
       /\ NumActive(sessions, op[p].class_id, op[p].date) = 1

\* C2: in every reachable state of concurrently running calls there is at
\* most one active session per (class_id, date).
C2_AtMostOneActive ==
    \A c \in ClassIds, d \in Dates : NumActive(sessions, c, d) <= 1

\* C3: a POST /qr/scan of a student, with a payload that names the target
\* class, a date with an active session and that session's current code,
\* reports success and the student is in scanned_students (the student was
\* not in the list before the request).
C3_ValidApiScanAppends ==
    \A p \in Procs :
       (/\ pc[p] = "done"
        /\ op[p].name = "scan"
        /\ op[p].via = "api"
        /\ op[p].user \in Students
        /\ op[p].qr.json
        /\ op[p].qr.ctype = "str"
        /\ op[p].qr.cls = op[p].class_id
        /\ \E id \in ActiveIds(sessions, op[p].class_id, op[p].qr.date) :
              /\ sessions[id].current_code = op[p].qr.code
              /\ (ret[p].success \/ op[p].user \notin Range(sessions[id].scanned_students)))
       => (/\ ret[p].success
           /\ \E id \in ActiveIds(sessions, op[p].class_id, op[p].qr.date) :
                 op[p].user \in Range(sessions[id].scanned_students))

\* how often s occurs in a list
Occurrences(s, list) == Cardinality({i \in 1..Len(list) : list[i] = s})

\* C4: calls run one after the other.  After a scan_qr_code with the
\* session's current code has reported success or "Already scanned", the
\* student occurs exactly once in the session's scanned_students.
C4_ScannedExactlyOnce ==
    \A p \in Procs :
       (/\ pc[p] = "done"
        /\ op[p].name = "scan"
        /\ op[p].via = "db"
        /\ (ret[p].success \/ ret[p].message = "Already scanned"))
       => \A id \in ActiveIds(sessions, op[p].class_id, op[p].date) :
             Occurrences(op[p].user, sessions[id].scanned_students) = 1

\* C5: no scanned_students list ever holds a student twice, and when a scan
\* of a student has committed while another scan of the same student on the
\* same session is between its query and its commit, the student occurs
\* exactly once in the persisted list.
C5_SameStudentOnce ==
    /\ \A i \in 1..Len(sessions) : \A s \in Students :
          Occurrences(s, sessions[i].scanned_students) <= 1
    /\ \A p \in Procs : \A q \in Others(p) :
          (/\ pc[p] = "done"
           /\ op[p].name = "scan"
           /\ ret[p].success
           /\ pc[q] = "scan_commit"
           /\ op[q].user = op[p].user
           /\ loc[q].id = loc[p].id)
          => Occurrences(op[p].user, sessions[loc[p].id].scanned_students) = 1

\* C6: a scan whose commit comes after another student's scan has committed
\* on the same session (the persisted list is no longer the one it loaded)
\* reports success, adds its student and keeps every student already
\* persisted.
C6_DifferentStudentsBothKept ==
    [][\A p \in Procs :
         (/\ pc[p] = "scan_commit"
          /\ pc'[p] = "done"
          /\ sessions[loc[p].id].scanned_students # loc[p].scanned
          /\ op[p].user \notin Range(sessions[loc[p].id].scanned_students))
         => (/\ ret'[p].success
             /\ Range(sessions[loc[p].id].scanned_students) \cup {op[p].user}
                   \subseteq Range(sessions'[loc[p].id].scanned_students))
      ]_vars

\* C7: calls run one after the other.  A get_qr_session of the session's
\* teacher before code_generated_at + rotation_interval returns the stored
\* code and changes nothing; at or after that time it rotates, and the
\* rotation stores and returns a code different from the previous one and
\* sets code_generated_at to the time of the rotation.
C7_RotationBound ==
    [][\A p \in Procs :
         /\ (pc[p] = "idle" /\ op'[p].name = "get")
            => \A id \in ActiveIds(sessions, op'[p].class_id, op'[p].date) :
                  IF now < sessions[id].code_generated_at + sessions[id].rotation_interval
                  THEN /\ pc'[p] = "done"
                       /\ sessions' = sessions
                       /\ (op'[p].user = sessions[id].teacher_id => ret'[p].session.current_code = sessions[id].current_code)
                  ELSE pc'[p] = "get_rotate"
         /\ (pc[p] = "get_rotate" /\ pc'[p] = "done")
            => (/\ sessions'[loc[p].id].current_code # sessions[loc[p].id].current_code
                /\ sessions'[loc[p].id].code_generated_at = now
                /\ (op[p].user = sessions[loc[p].id].teacher_id => ret'[p].session = sessions'[loc[p].id]))
      ]_vars

\* C8: calls run one after the other.  scan_qr_code lets a code pass (goes
\* on to the append) only at a time before code_generated_at +
\* rotation_interval of the session.
C8_ScanWithinWindow ==
    [][\A p \in Procs :
         (pc[p] = "idle" /\ op'[p].name = "scan" /\ pc'[p] = "scan_commit")
         => now < sessions[loc'[p].id].code_generated_at + sessions[loc'[p].id].rotation_interval
      ]_vars

\* C9: calls run one after the other.  When get_qr_session has rotated a
\* session's code, a scan_qr_code presenting the code it replaced is
\* answered "Invalid or expired QR code", and one presenting the new
\* current code passes the code check.
C9_StaleCodeRejected ==
    \A p \in Procs :
       (pc[p] = "done" /\ op[p].name = "get" /\ loc[p].id # 0)
       => \A s \in Students :
             /\ ScanVerdict(sessions, loc[p].id, s, BareText(loc[p].code)) = "Invalid or expired QR code"
             /\ ScanVerdict(sessions, loc[p].id, s, BareText(sessions[loc[p].id].current_code)) \in {"append", "Already scanned"}

\* C10: a POST /qr/scan of a student whose payload decodes to an object is
\* answered "QR code is for a different class" (HTTP 400), with the
\* sessions unchanged, when the payload's class_id names another class
\* than the target, whatever its code; and is never answered so when the
\* payload names the target class.
C10_WrongClassRejected ==
    [][\A p \in Procs :
         (/\ pc[p] = "idle"
          /\ op'[p].name = "scan"
          /\ op'[p].via = "api"
          /\ op'[p].user \in Students
          /\ op'[p].qr.json)
         => IF op'[p].qr.cls # op'[p].class_id
            THEN /\ pc'[p] = "done"
                 /\ ret'[p].http = 400
                 /\ ret'[p].message = "QR code is for a different class"
                 /\ sessions' = sessions
            ELSE ~(pc'[p] = "done" /\ ret'[p].message = "QR code is for a different class")
      ]_vars

\* the active sessions of (c, d) whose teacher is u
OwnedActiveIds(tbl, c, u, d) == {i \in ActiveIds(tbl, c, d) : tbl[i].teacher_id = u}

\* C11: calls run one after the other.  A stop_qr_session finished with
\* success has set the status of an active session of the caller for the
\* (class_id, date) to "completed", and its scanned_count is the length of
\* that session's scanned_students and its scanned_students that list; a
\* stop_qr_session finished without success found no active session of the
\* caller for the (class_id, date).
C11_StopCompletesAndSummarises ==
    \A p \in Procs :
       (pc[p] = "done" /\ op[p].name = "stop")
       => IF ret[p].success
          THEN /\ loc[p].id \in KeyIds(sessions, op[p].class_id, op[p].date)
               /\ sessions[loc[p].id].teacher_id = op[p].user
               /\ sessions[loc[p].id].status = "completed"
               /\ ret[p].scanned_count = Len(sessions[loc[p].id].scanned_students)
               /\ ret[p].scanned_students = sessions[loc[p].id].scanned_students
          ELSE OwnedActiveIds(sessions, op[p].class_id, op[p].user, op[p].date) = {}

\* a stop has completed a session that a student had scanned
C11_Witness ==
    \E p \in Procs :
       /\ pc[p] = "done"
       /\ op[p].name = "stop"
       /\ ret[p].success
       /\ ret[p].scanned_count = 1
       /\ sessions[loc[p].id].status = "completed"

\* C12: a stop_qr_session by a user who is the teacher of no active session
\* of the (class_id, date) returns success False with "No active session
\* found" and changes no session record; and a record's status becomes
\* "completed" only in the commit of a stop called by the record's teacher.
C12_OnlyOwnerStops ==
    [][/\ \A p \in Procs :
            (/\ pc[p] = "idle"
             /\ op'[p].name = "stop"
             /\ OwnedActiveIds(sessions, op'[p].class_id, op'[p].user, op'[p].date) = {})
            => (/\ pc'[p] = "done"
                /\ ~ret'[p].success
                /\ ret'[p].message = "No active session found"
                /\ sessions' = sessions)
       /\ \A i \in 1..Len(sessions) :
            (sessions[i].status = "active" /\ sessions'[i].status # "active")
            => \E p \in Procs :
                  /\ pc[p] = "stop_commit"
                  /\ pc'[p] = "done"
                  /\ loc[p].id = i
                  /\ op[p].user = sessions[i].teacher_id
      ]_vars

\* another teacher's stop has failed while the session is active
C12_Witness ==
    \E p \in Procs :
       /\ pc[p] = "done"
       /\ op[p].name = "stop"
       /\ ~ret[p].success
       /\ \E i \in ActiveIds(sessions, op[p].class_id, op[p].date) :
             /\ sessions[i].teacher_id # op[p].user
             /\ sessions[i].scanned_students # <<>>

\* C13: calls run one after the other.  While a (class_id, date) has a
\* completed session and no active one (a stop has completed it and no
\* start has followed), every scan for it fails and changes no session
\* record: scan_qr_code returns success False with "No active QR session",
\* whatever the code presented.
C13_NoScanAfterStop ==
    [][\A p \in Procs :
         (/\ pc[p] = "idle"
          /\ op'[p].name = "scan"
          /\ KeyIds(sessions, op'[p].class_id, op'[p].date) # {}
          /\ ActiveIds(sessions, op'[p].class_id, op'[p].date) = {})
         => (/\ pc'[p] = "done"
             /\ ~ret'[p].success
             /\ sessions' = sessions
             /\ (op'[p].via = "db" => ret'[p].kind = "ok")
             /\ (ret'[p].kind = "ok" => ret'[p].message = "No active QR session"))
      ]_vars

\* a scan presenting the code of a completed session has been refused
C13_Witness ==
    \E p \in Procs :
       /\ pc[p] = "done"
       /\ op[p].name = "scan"
       /\ op[p].via = "db"
       /\ ret[p].message = "No active QR session"
       /\ ActiveIds(sessions, op[p].class_id, op[p].date) = {}
       /\ \E i \in KeyIds(sessions, op[p].class_id, op[p].date) :
             /\ sessions[i].status = "completed"
             /\ sessions[i].current_code = op[p].qr.code

\* C14: no step changes the status of a "completed" record or removes a
\* record, and the commit of a start appends one new "active" record
\* and leaves every existing record as it was.
C14_CompletedIsTerminal ==
    [][/\ Len(sessions') >= Len(sessions)
       /\ \A i \in 1..Len(sessions) :
            sessions[i].status = "completed" => sessions'[i].status = "completed"
       /\ \A p \in Procs :
            (pc[p] = "start_commit" /\ pc'[p] = "done")
            => (/\ Len(sessions') = Len(sessions) + 1
                /\ SubSeq(sessions', 1, Len(sessions)) = sessions
                /\ sessions'[Len(sessions')].status = "active")
      ]_vars

\* a start after a stop: the new record is active, the old one completed
C14_Witness ==
    \E p \in Procs :
       /\ pc[p] = "done"
       /\ op[p].name = "start"
       /\ ret[p].success
       /\ Len(sessions) = 2
       /\ sessions[1].status = "completed"
       /\ sessions[2].status = "active"
       /\ sessions[2].class_id = sessions[1].class_id

\* C15: under any interleaving of scan_qr_code and stop_qr_session, no step
\* changes the scanned_students of a "completed" record, so the list a stop
\* returned stays the record's list.
C15_FrozenOnceCompleted ==
    [][\A i \in 1..Len(sessions) :
         sessions[i].status = "completed"
         => sessions'[i].scanned_students = sessions[i].scanned_students
      ]_vars

\* C16: calls run one after the other.  Every record's session_number is
\* the number of records of its (class_id, date) created up to and
\* including it: the n-th session of a (class_id, date) has number n.
C16_SessionNumberIsCountPlusOne ==
    \A i \in 1..Len(sessions) :
       sessions[i].session_number = Cardinality({j \in KeyIds(sessions, sessions[i].class_id, sessions[i].date) : j <= i})

\* a second session of the date has been started after the first was stopped
C16_Witness ==
    /\ Len(sessions) >= 2
    /\ sessions[1].status = "completed"
    /\ sessions[2].class_id = sessions[1].class_id
    /\ sessions[2].date = sessions[1].date
    /\ sessions[1].session_number = 1
    /\ sessions[2].session_number = 2

\* C17: a get_qr_session that rotates replaces the code it saw expired: when
\* its rotation commits, the session's current_code is still the one it
\* loaded (no other get has rotated that expired code in between), so an
\* expired code is rotated at most once.
C17_OneRotationPerExpiredCode ==
    [][\A p \in Procs :
         (pc[p] = "get_rotate" /\ pc'[p] = "done")
         => sessions[loc[p].id].current_code = loc[p].code
      ]_vars

\* the three encodings of one mark with code c: the bare code, the
\* counted-legacy cell {status: c, count: 1}, the multi-session cell
\* {sessions: [{status: c}]}
Encodings(c) ==
    {StrV(c),
     DictV(Missing, StrV(c), IntV(1), FALSE),
     DictV(ListV(<<DictV(Missing, StrV(c), Missing, TRUE)>>), Missing, Missing, FALSE)}

OneMark(c) == Counts(IntV(IF c = "P" THEN 1 ELSE 0), IntV(IF c = "A" THEN 1 ELSE 0), IntV(IF c = "L" THEN 1 ELSE 0), IntV(1))

\* C18: for each of the codes P, A and L, parse_attendance_value returns
\* the same record for the three encodings of the code: 1 in total and in
\* the code's bucket, 0 in the other buckets.
C18_ThreeEncodingsAgree ==
    \A c \in {"P", "A", "L"} :
       (counts # NotParsed /\ attendance_value \in Encodings(c)) => counts = OneMark(c)

\* the multi-session encoding of a late mark has been parsed
C18_Witness ==
    /\ attendance_value = DictV(ListV(<<DictV(Missing, StrV("L"), Missing, TRUE)>>), Missing, Missing, FALSE)
    /\ counts = Counts(IntV(0), IntV(0), IntV(1), IntV(1))

EmptyCounts == Counts(IntV(0), IntV(0), IntV(0), IntV(0))

Marks == {StrV("P"), StrV("A"), StrV("L")}

\* cells that carry no P, A or L mark: a bare string other than P/A/L, a
\* counted-legacy cell whose status is not P/A/L (count absent or a number),
\* a multi-session cell none of whose entries has the status P, A or L
Unrecognised(v) ==
    \/ v.t = "str" /\ v \notin Marks
    \/ /\ v.t = "dict"
       /\ v.sessions = Missing
       /\ v.status # Missing
       /\ v.status \notin Marks
       /\ v.count.t \in {"missing", "int"}
    \/ /\ v.t = "dict"
       /\ v.sessions # Missing
       /\ v.sessions.t = "list"
       /\ \A i \in 1..Len(v.sessions.items) :
             v.sessions.items[i].t = "dict" /\ v.sessions.items[i].status \notin Marks

\* C19: parse_attendance_value returns the empty record (all four counts
\* 0) for every cell that carries no P, A or L mark.
C19_UnrecognisedIsEmpty ==
    (counts # NotParsed /\ Unrecognised(attendance_value)) => counts = EmptyCounts

\* C20: parse_attendance_value raises for no cell: every call returns a
\* record.
C20_NeverRaises ==
    counts # NotParsed => counts.kind = "return"

\* a multi-session cell whose "sessions" value is a list of dicts
SessionList(v) ==
    /\ v.t = "dict"
    /\ v.sessions # Missing
    /\ v.sessions.t = "list"
    /\ \A i \in 1..Len(v.sessions.items) : v.sessions.items[i].t = "dict"

\* the entries of a list of dicts whose status is one of the values S
EntriesWith(items, S) == Cardinality({i \in 1..Len(items) : items[i].status \in S})

\* the values of a status that is set: a non-empty string
SetStatuses == {StrV(c) : c \in StatusCodes \ {""}}

\* C21: for a multi-session cell whose entries are dicts,
\* parse_attendance_value returns present, absent and late equal to the
\* numbers of entries with status P, A and L, and total equal to the number
\* of entries that have a status (entries with no status key, a null or an
\* empty status are skipped).
C21_OnePerEntryWithStatus ==
    (counts # NotParsed /\ SessionList(attendance_value))
    => counts = Counts(IntV(EntriesWith(attendance_value.sessions.items, {StrV("P")})),
                       IntV(EntriesWith(attendance_value.sessions.items, {StrV("A")})),
                       IntV(EntriesWith(attendance_value.sessions.items, {StrV("L")})),
                       IntV(EntriesWith(attendance_value.sessions.items, SetStatuses)))

\* a list of a late entry and an entry without status has been parsed
C21_Witness ==
    /\ SessionList(attendance_value)
    /\ Len(attendance_value.sessions.items) = 2
    /\ attendance_value.sessions.items[1].status = StrV("L")
    /\ attendance_value.sessions.items[2].status = Missing
    /\ counts = Counts(IntV(0), IntV(0), IntV(1), IntV(1))

\* the counts of the entries of a list of dicts, one per entry with a status
EntryCounts(items) ==
    Counts(IntV(EntriesWith(items, {StrV("P")})), IntV(EntriesWith(items, {StrV("A")})),
           IntV(EntriesWith(items, {StrV("L")})), IntV(EntriesWith(items, SetStatuses)))

\* JSON values that are false in Python: null, "", 0, [] and {}
EmptyValues == {NoneV, StrV(""), IntV(0), ListV(<<>>), DictV(Missing, Missing, Missing, FALSE)}

\* C22: parse_attendance_value tries the shapes in the order empty,
\* multi-session, counted-legacy, bare code, and the first that matches
\* decides: an empty value yields the empty record; a dict that has a
\* "sessions" list beside a "status" key yields the counts of the list's
\* entries only (status and count are ignored), the empty record when the
\* list is empty; a dict with "status" and no "sessions" yields count (1
\* without a count) as total; a bare P, A or L yields one mark.
C22_FirstShapeWins ==
    counts # NotParsed =>
       /\ attendance_value \in EmptyValues => counts = EmptyCounts
       /\ (SessionList(attendance_value) /\ attendance_value.status # Missing)
          => (/\ counts = EntryCounts(attendance_value.sessions.items)
              /\ attendance_value.sessions.items = <<>> => counts = EmptyCounts)
       /\ (/\ attendance_value.t = "dict"
           /\ attendance_value.sessions = Missing
           /\ attendance_value.status # Missing)
          => counts.total = (IF attendance_value.count = Missing THEN IntV(1) ELSE attendance_value.count)
       /\ attendance_value \in Marks => counts = OneMark(attendance_value.s)

\* a cell with an absent session beside a legacy status P and count 2
C22_Witness ==
    /\ attendance_value = DictV(ListV(<<DictV(Missing, StrV("A"), Missing, TRUE)>>), StrV("P"), IntV(2), FALSE)
    /\ counts = Counts(IntV(0), IntV(1), IntV(0), IntV(1))

\* the thresholds in force: the argument, or 95/90/85 when it is unset
InForce == IF thresholds.given THEN thresholds ELSE Thresholds(95, 90, 85)

\* get_student_stats has returned the statistics of a student who has a row
\* with at least one counted mark
StudentCounted ==
    /\ stats.fn = "get_student_stats"
    /\ stats.student \in 1..Len(students)
    /\ stats.total_classes > 0

\* C23: for a student with total > 0, get_student_stats returns the
\* percentage (present + late) / total * 100 (to the nearest hundredth) and
\* the status of the band the percentage lies in: excellent at or above
\* thresholds.excellent, good in [good, excellent), moderate in [moderate,
\* good), at-risk below moderate; with thresholds 95/90/85 a student with
\* (9 present, 1 absent) is good with 90%, one with (5, 5) at-risk with
\* 50%, one with (10, 0) excellent with 100%.
C23_FourBands ==
    /\ StudentCounted =>
          LET k == (stats.present + stats.late) * 100
              n == stats.total_classes
          IN /\ 2 * (stats.percentage * n - k * 100) <= n
             /\ 2 * (k * 100 - stats.percentage * n) <= n
             /\ (stats.status = "excellent") = (k >= InForce.excellent * n)
             /\ (stats.status = "good") = (k >= InForce.good * n /\ k < InForce.excellent * n)
             /\ (stats.status = "moderate") = (k >= InForce.moderate * n /\ k < InForce.good * n)
             /\ (stats.status = "at-risk") = (k < InForce.moderate * n)
    /\ (/\ stats.fn = "get_student_stats"
        /\ stats.student \in 1..Len(students)
        /\ InForce = Thresholds(95, 90, 85))
       => LET h == students[stats.student]
              i == stats.student
          IN /\ h = <<Counted("P", 9), Counted("A", 1)>> => stats = StudentStats(i, 10, 9, 1, 0, 9000, "good")
             /\ h = <<Counted("P", 5), Counted("A", 5)>> => stats = StudentStats(i, 10, 5, 5, 0, 5000, "at-risk")
             /\ h = <<Counted("P", 10)>> => stats = StudentStats(i, 10, 10, 0, 0, 10000, "excellent")

\* the student with 9 present and 1 absent has been classified good
C23_Witness ==
    /\ StudentCounted
    /\ students[stats.student] = <<Counted("P", 9), Counted("A", 1)>>
    /\ thresholds = Thresholds(95, 90, 85)
    /\ stats.status = "good"
    /\ stats.percentage = 9000

\* a class aggregation has been called for an existing class
ClassCalled == stats.fn \in {"calculate_class_statistics", "calculate_class_statistics_from_data"} /\ stats.found

\* the sums of the parsed counts over every cell of every student
RosterSums == ClassLoop(students, 1, InForce, NoClassSum)

\* C24: for a class whose cells all parse to numbers, both class
\* aggregations return the totals of present, absent, late and sessions
\* equal to the sums of the parsed counts over all cells of all students,
\* and the average (total_present + total_late) / total_sessions * 100 (to
\* the nearest hundredth), 0 when total_sessions is 0; for the students
\* (9,1), (5,5), (10,0) the average is 80.
C24_ClassTotalsAndAverage ==
    (ClassCalled /\ RosterSums.ok) =>
       /\ stats.kind = "return"
       /\ stats.has_totals
       /\ stats.total_present = RosterSums.present
       /\ stats.total_absent = RosterSums.absent
       /\ stats.total_late = RosterSums.late
       /\ stats.total_sessions = RosterSums.total
       /\ LET k == (RosterSums.present + RosterSums.late) * 10000
              n == RosterSums.total
              d == stats.avg_attendance * n - k
          IN IF n = 0 THEN stats.avg_attendance = 0
             ELSE 2 * d <= (IF n > 0 THEN n ELSE -n) /\ -2 * d <= (IF n > 0 THEN n ELSE -n)
       /\ students = <<<<Counted("P", 9), Counted("A", 1)>>, <<Counted("P", 5), Counted("A", 5)>>, <<Counted("P", 10)>>>>
          => stats.avg_attendance = 8000

\* the students of the class whose parsed total is not 0
WithHistory == {i \in 1..Len(students) : SumCells(students[i], 1, NoSum).total # 0}

\* C25: a student whose cells parse to total = 0 is counted in no band of
\* the class aggregations (excellent and at_risk count students with a
\* history only), and get_student_stats does not give such a student the
\* status at-risk.
C25_NoHistoryNotAtRisk ==
    /\ (ClassCalled /\ RosterSums.ok /\ stats.kind = "return")
       => stats.excellent + stats.at_risk <= Cardinality(WithHistory)
    /\ (/\ stats.fn = "get_student_stats"
        /\ stats.student \in 1..Len(students)
        /\ SumCells(students[stats.student], 1, NoSum).ok
        /\ stats.total_classes = 0)
       => stats.status # "at-risk"

\* a count of a returned record that is a number n >= 0
NonNegative(v) == v.t = "int" /\ v.n >= 0

\* C26: every record parse_attendance_value returns has the four counts
\* >= 0 and total = present + absent + late.
C26_TotalIsSumOfBuckets ==
    counts.kind = "return" =>
       /\ NonNegative(counts.present)
       /\ NonNegative(counts.absent)
       /\ NonNegative(counts.late)
       /\ NonNegative(counts.total)
       /\ counts.total.n = counts.present.n + counts.absent.n + counts.late.n

\* C27: in every reachable state of concurrently running start and stop
\* calls, the session_number values of the records of one (class_id, date)
\* are pairwise distinct and are exactly 1..n for its n records.
C27_SessionNumbersAreOneToN ==
    \A c \in ClassIds, d \in Dates :
       LET K == KeyIds(sessions, c, d)
       IN /\ \A i \in K, j \in K : i # j => sessions[i].session_number # sessions[j].session_number
          /\ {sessions[i].session_number : i \in K} = 1..Cardinality(K)

\* C28: a GET /qr/session of a user who is the teacher of no active
\* session of the (class_id, date) is answered {active: false} and leaves
\* every session record as it was.
C28_StrangersGetChangesNothing ==
    [][\A p \in Procs :
         (/\ pc[p] \in {"idle", "get_rotate"}
          /\ pc'[p] = "done"
          /\ op'[p].name = "get"
          /\ OwnedActiveIds(sessions, op'[p].class_id, op'[p].user, op'[p].date) = {})
         => (/\ ret'[p].message = "active: false"
             /\ sessions' = sessions)
      ]_vars

\* worker p's step ends a call of one of the names N on record i
Commits(p, N, i) == pc[p] \in N /\ pc'[p] = "done" /\ loc[p].id = i

\* C29: in every step, an existing record keeps its class_id, teacher_id,
\* date, session_number and rotation_interval; its current_code or
\* code_generated_at change only in the rotation of a get_qr_session; and
\* its scanned_students or status change only in the commit of a scan, a
\* mark or a stop (so scan_qr_code, mark_qr_attendance and stop_qr_session
\* leave the code fields alone and get_qr_session leaves the list and the
\* status alone).
C29_FrameOfEachOperation ==
    [][\A i \in 1..Len(sessions) :
         /\ Len(sessions') >= Len(sessions)
         /\ sessions'[i].class_id = sessions[i].class_id
         /\ sessions'[i].teacher_id = sessions[i].teacher_id
         /\ sessions'[i].date = sessions[i].date
         /\ sessions'[i].session_number = sessions[i].session_number
         /\ sessions'[i].rotation_interval = sessions[i].rotation_interval
         /\ (\/ sessions'[i].current_code # sessions[i].current_code
             \/ sessions'[i].code_generated_at # sessions[i].code_generated_at)
            => \E p \in Procs : Commits(p, {"get_rotate"}, i)
         /\ (\/ sessions'[i].scanned_students # sessions[i].scanned_students
             \/ sessions'[i].status # sessions[i].status)
            => \E p \in Procs : Commits(p, {"scan_commit", "mark_commit", "stop_commit"}, i)
      ]_vars

\* a mark has added a student to a session whose code had been rotated
C29_Witness ==
    \E p \in Procs :
       /\ pc[p] = "done"
       /\ op[p].name = "mark"
       /\ ret[p].success
       /\ loc[p].id # 0
       /\ sessions[loc[p].id].scanned_students = <<op[p].user>>
       /\ sessions[loc[p].id].code_generated_at > 0
       /\ sessions[loc[p].id].code_generated_at < now

\* the call that worker p's step ends has failed: a start, a scan or a mark
\* that raised, a scan that returned success False, a stop that returned
\* False
Fails(p) ==
    /\ pc[p] # "done"
    /\ pc'[p] = "done"
    /\ op'[p].name \in {"start", "scan", "stop", "mark"}
    /\ ~ret'[p].success

\* C30: a start_qr_session rejected for an existing active session, a
\* scan_qr_code that reports no active session, an invalid or expired code
\* or an already scanned student, and a stop_qr_session that finds no
\* matching active session are decided in the first step of the call and
\* leave every session record as it was.
C30_FailuresChangeNothing ==
    [][\A p \in Procs :
         Fails(p) => (pc[p] = "idle" /\ sessions' = sessions)
      ]_vars

\* a scan with a wrong code has failed on an active session nobody had
\* scanned
C30_Witness ==
    \E p \in Procs :
       /\ pc[p] = "done"
       /\ op[p].name = "scan"
       /\ ret[p].message = "Invalid or expired QR code"
       /\ \E i \in ActiveIds(sessions, op[p].class_id, op[p].date) :
             sessions[i].scanned_students = <<>>

====
